---------------------------- MODULE Spec2Model ----------------------------
(***************************************************************************)
(* fastparquet/schema.py: the schema tree built from the preorder list of  *)
(* SchemaElements, the flat column index, the path resolver and level      *)
(* calculator (SchemaHelper), the awkward form mapper and _is_list_like.   *)
(*                                                                         *)
(* Elements are identified by their position in schema_elements.  Python   *)
(* indexes the list from 0; here the list is a TLA+ sequence, so element   *)
(* 0 of the code (the message root) is element 1 of the model.             *)
(*                                                                         *)
(* A dotted string is modelled as the sequence of its dot-free pieces      *)
(* ("s.x" is <<"s", "x">>), so '.'.join is concatenation and               *)
(* str.split('.') cuts a string into its one-piece segments.               *)
(***************************************************************************)
EXTENDS Naturals, Sequences, FiniteSets, TLC

VARIABLES schema, children, has, isflat, pc, call

vars == <<schema, children, has, isflat, pc, call>>

\* ------------------------------------------------------------ bounds
\* Longest schema_elements list drawn (the root included).
MaxElems == 5
\* Longest list drawn for the calls that take a path.
MaxPathElems == 4

\* ------------------------------------------------- the element model
REQUIRED == "REQUIRED"
OPTIONAL == "OPTIONAL"
REPEATED == "REPEATED"
None == "None"
LIST == "LIST"
MAP == "MAP"
INT64 == "INT64"
BYTE_ARRAY == "BYTE_ARRAY"

\* Sibling names, by position among the siblings: siblings are distinct.
SiblingNames == <<"a", "b", "c", "d", "e", "f", "g", "h">>
RootName == "schema"
\* A name no element carries.
AbsentName == "z"

Leaf(pos, rep, ty) ==
    [name |-> SiblingNames[pos], type |-> ty, converted_type |-> None,
     repetition_type |-> rep, num_children |-> 0]

Group(pos, rep, ct, nc) ==
    [name |-> SiblingNames[pos], type |-> None, converted_type |-> ct,
     repetition_type |-> rep, num_children |-> nc]

RootElement(nc) ==
    [name |-> RootName, type |-> None, converted_type |-> None,
     repetition_type |-> None, num_children |-> nc]

Repetitions == {REQUIRED, OPTIONAL, REPEATED}
GroupConverted == {None, LIST, MAP}
LeafTypes == {INT64, BYTE_ARRAY}

\* The preorder reading of a list of declared child counts.
RECURSIVE CountSum(_, _), SubtreeEnd(_, _), ChildRoot(_, _, _)
CountSum(counts, k) == IF k = 0 THEN 0 ELSE counts[k] + CountSum(counts, k - 1)

\* The index of the last element of the subtree whose top is element i.
SubtreeEnd(counts, i) ==
    IF counts[i] = 0
    THEN i
    ELSE SubtreeEnd(counts, ChildRoot(counts, i, counts[i]))

\* The top of the k-th child subtree of element i.
ChildRoot(counts, i, k) ==
    IF k = 1 THEN i + 1 ELSE SubtreeEnd(counts, ChildRoot(counts, i, k - 1)) + 1

\* The lists of n child counts that are the preorder of one tree: every
\* element but the first is the child some earlier element still waits for.
ValidCounts(n) ==
    {counts \in [1..n -> 0..(n - 1)] :
        /\ CountSum(counts, n) = n - 1
        /\ \A k \in 1..(n - 1) : CountSum(counts, k) >= k}

\* The place of element i among its siblings.
SiblingPosition(counts, i) ==
    CHOOSE k \in 1..Len(counts) :
        \E a \in 1..(i - 1) : k <= counts[a] /\ ChildRoot(counts, a, k) = i

\* The valid preorder element list of the given child counts, repetition
\* types, leaf types and group converted types: element 1 is the message
\* root, sibling names are distinct.
Elements(counts, reps, types, converted) ==
    [i \in 1..Len(counts) |->
        IF i = 1
        THEN RootElement(counts[1])
        ELSE IF counts[i] = 0
             THEN Leaf(SiblingPosition(counts, i), reps[i], types[i])
             ELSE Group(SiblingPosition(counts, i), reps[i], converted[i],
                        counts[i])]

\* ------------------------------------------------------- OrderedDict
\* An OrderedDict is the sequence of its items [k |-> key, v |-> value] in
\* insertion order.  A key is a dotted string: a sequence of pieces.
DictHas(d, key) == \E j \in 1..Len(d) : d[j].k = key

DictGet(d, key) == d[CHOOSE j \in 1..Len(d) : d[j].k = key].v

\* d[key] = value: an existing key keeps its place and takes the value.
DictSet(d, key, value) ==
    IF DictHas(d, key)
    THEN [j \in 1..Len(d) |-> IF d[j].k = key THEN [k |-> key, v |-> value]
                                              ELSE d[j]]
    ELSE Append(d, [k |-> key, v |-> value])

DictValues(d) == [j \in 1..Len(d) |-> d[j].v]

DictKeys(d) == [j \in 1..Len(d) |-> d[j].k]

\* '.'.join(parts): the parts are dotted strings themselves.
RECURSIVE Join(_)
Join(parts) ==
    IF parts = <<>> THEN <<>> ELSE Head(parts) \o Join(Tail(parts))

\* ------------------------------------------------------- schema_tree
\* The tree state threaded through schema_tree: the children mappings, the
\* set of elements that have a children attribute, and whether schema[i]
\* ran off the list (IndexError).
TreeReturnAlwaysNext(nc, i) == i + 1

\* lines 16-19: the index schema_tree returns.
TreeReturn(nc, i) == IF nc # 0 THEN i ELSE i + 1

RECURSIVE schema_tree(_, _, _), TreeLoop(_, _, _, _)
\* lines 10-15: the while loop of schema_tree for the node root, i being
\* the last index consumed.
TreeLoop(sch, t, root, i) ==
    IF t.err \/ ~(Len(t.children[root]) < sch[root].num_children)
    THEN [t EXCEPT !.i = i]
    ELSE LET j == i + 1 IN
         IF j > Len(sch)
         THEN [t EXCEPT !.err = TRUE, !.i = j]
         ELSE LET s == sch[j]
                  t1 == [t EXCEPT !.children[root] = DictSet(@, <<s.name>>, j)]
                  t2 == IF s.num_children # 0
                        THEN schema_tree(sch, t1, j)
                        ELSE [t1 EXCEPT !.i = j]
              IN TreeLoop(sch, t2, root, t2.i)

schema_tree(sch, t, i) ==
    LET t0 == [t EXCEPT !.children[i] = <<>>, !.has = @ \cup {i}]
        t1 == TreeLoop(sch, t0, i, i)
    IN IF t1.err THEN t1 ELSE [t1 EXCEPT !.i = TreeReturn(sch[i].num_children, t1.i)]

\* ----------------------------------------------------------- flatten
NamePartsNoRootGuard(sch, node, root, name_parts) ==
    Append(name_parts, <<sch[node].name>>)

\* lines 60-61: the name parts flatten carries below the root.
NameParts(sch, node, root, name_parts) ==
    IF node # root THEN Append(name_parts, <<sch[node].name>>) ELSE name_parts

PopStruct(d, name_parts) ==
    SelectSeq(d, LAMBDA e : e.k # Join(name_parts))

\* line 62: root["children"].pop('.'.join(name_parts), None) is commented
\* out in the source: the mapping is left as it is.
PopDisabled(d, name_parts) == d

SkipNever(sch, node) == FALSE

\* line 64: the children of a REPEATED node are passed over.
SkipRepeated(sch, node) == sch[node].repetition_type = REPEATED

RECURSIVE flatten(_, _, _, _, _), FlattenItems(_, _, _, _, _, _, _)
\* lines 63-73: the loop of flatten over the copied items, from the k-th.
FlattenItems(sch, f, node, root, name_parts, items, k) ==
    IF k > Len(items)
    THEN f
    ELSE LET name == items[k].k
             item == items[k].v
             key == Join(Append(name_parts, name))
             nkids == IF item \in f.has THEN Len(f.children[item]) ELSE 0
             f1 == IF SkipRepeated(sch, node)
                   THEN f
                   ELSE IF nkids = 0 \/ sch[item].converted_type \in {LIST, MAP}
                        THEN [f EXCEPT !.children[root] = DictSet(@, key, item)]
                        ELSE [flatten(sch, f, item, root, name_parts)
                                 EXCEPT !.isflat = @ \cup {item}]
         IN FlattenItems(sch, f1, node, root, name_parts, items, k + 1)

\* lines 57-73.  f holds the children mappings, the elements with a
\* children attribute and the elements marked isflat.
flatten(sch, f, node, root, name_parts) ==
    IF node \notin f.has
    THEN f
    ELSE LET np == NameParts(sch, node, root, name_parts)
             f0 == [f EXCEPT !.children[root] = PopDisabled(@, np)]
         IN FlattenItems(sch, f0, node, root, np, f0.children[node], 1)

\* ------------------------------------------------------ SchemaHelper
Ok(v) == [err |-> None, val |-> v]
Raise(e) == [err |-> e, val |-> None]

\* A path argument is a str or a list of segments; line 116-117: a str is
\* split at its dots into one-piece segments.
PathStr(key) == [str |-> TRUE, p |-> key]
PathList(segs) == [str |-> FALSE, p |-> segs]
Split(key) == [j \in 1..Len(key) |-> <<key[j]>>]
Parts(name) == IF name.str THEN Split(name.p) ELSE name.p

Prefix(parts, n) == SubSeq(parts, 1, n)

RECURSIVE Walk(_, _, _, _)
\* lines 118-119: root = root["children"][part] for the parts from the
\* k-th.  A missing key is dict's KeyError; an element without children
\* has no "children" item to look in.
Walk(h, node, parts, k) ==
    IF k > Len(parts)
    THEN Ok(node)
    ELSE IF node \notin h.has
         THEN Raise("NoChildrenItem")
         ELSE IF ~DictHas(h.children[node], parts[k])
              THEN Raise("KeyError")
              ELSE Walk(h, DictGet(h.children[node], parts[k]), parts, k + 1)

\* lines 113-120, for the segments of the path.
schema_element(h, parts) == Walk(h, 1, parts, 1)

RECURSIVE RequiredLoopNoBreak(_, _, _, _)
RequiredLoopNoBreak(h, parts, k, required) ==
    IF k > Len(parts)
    THEN Ok(required)
    ELSE LET s == schema_element(h, Prefix(parts, k)) IN
         IF s.err # None
         THEN s
         ELSE RequiredLoopNoBreak(h, parts, k + 1,
                  required /\ h.sch[s.val].repetition_type = REQUIRED)

is_required_no_break(h, parts) == RequiredLoopNoBreak(h, parts, 1, TRUE)

RECURSIVE RequiredLoop(_, _, _)
\* lines 128-133: the loop of is_required from the k-th part, which
\* breaks at the first element that is not REQUIRED.
RequiredLoop(h, parts, k) ==
    IF k > Len(parts)
    THEN Ok(TRUE)
    ELSE LET s == schema_element(h, Prefix(parts, k)) IN
         IF s.err # None
         THEN s
         ELSE IF h.sch[s.val].repetition_type # REQUIRED
              THEN Ok(FALSE)
              ELSE RequiredLoop(h, parts, k + 1)

\* lines 122-134.
is_required(h, parts) == RequiredLoop(h, parts, 1)

\* lines 143-144: what an element adds to the repetition level.
RepetitionStep(e) == IF e.repetition_type = REPEATED THEN 1 ELSE 0

DefinitionStepOptionalOnly(e) == IF e.repetition_type = OPTIONAL THEN 1 ELSE 0

\* lines 154-155: what an element adds to the definition level.
DefinitionStep(e) == IF e.repetition_type # REQUIRED THEN 1 ELSE 0

RECURSIVE RepetitionLoop(_, _, _, _), DefinitionLoop(_, _, _, _)
\* lines 141-144.
RepetitionLoop(h, parts, k, max_level) ==
    IF k > Len(parts)
    THEN Ok(max_level)
    ELSE LET element == schema_element(h, Prefix(parts, k)) IN
         IF element.err # None
         THEN element
         ELSE RepetitionLoop(h, parts, k + 1,
                             max_level + RepetitionStep(h.sch[element.val]))

\* lines 152-155.
DefinitionLoop(h, parts, k, max_level) ==
    IF k > Len(parts)
    THEN Ok(max_level)
    ELSE LET element == schema_element(h, Prefix(parts, k)) IN
         IF element.err # None
         THEN element
         ELSE DefinitionLoop(h, parts, k + 1,
                             max_level + DefinitionStep(h.sch[element.val]))

\* lines 136-145.
max_repetition_level(h, parts) == RepetitionLoop(h, parts, 1, 0)

\* lines 147-156.
max_definition_level(h, parts) == DefinitionLoop(h, parts, 1, 0)

\* ------------------------------------------------- schema_to_awkward
\* The awkward forms.  form_key is a dotted string, or NoKey where the
\* constructor is given none; "" is the string of no pieces.
NoKey == <<None>>
EmptyString == <<>>

NumpyForm(primitive, key) ==
    [form |-> "NumpyForm", primitive |-> primitive, parameters |-> None,
     contents |-> <<>>, fields |-> <<>>, key |-> key]

ListOffsetForm(content, parameters, key) ==
    [form |-> "ListOffsetForm", primitive |-> None, parameters |-> parameters,
     contents |-> <<content>>, fields |-> <<>>, key |-> key]

RecordForm(contents, names) ==
    [form |-> "RecordForm", primitive |-> None, parameters |-> None,
     contents |-> contents, fields |-> names, key |-> NoKey]

ByteMaskedForm(content, key) ==
    [form |-> "ByteMaskedForm", primitive |-> None, parameters |-> None,
     contents |-> <<content>>, fields |-> <<>>, key |-> key]

optional_without_key(form, key) == ByteMaskedForm(form, EmptyString)

\* lines 159-161.
_optional(form, key) == ByteMaskedForm(form, key)

\* lines 164-165.
_first(d) == DictValues(d)[1]

\* converted_types.simple, for the physical types drawn: the numpy dtype
\* of the type, as str() prints it.
simple(type) == IF type = INT64 THEN "int64" ELSE "object"

\* line 175.
FullName(topname, name) ==
    IF topname # EmptyString THEN topname \o <<name>> ELSE <<name>>

\* lines 178-205, for elements without a logical type: the form of a leaf.
LeafForm(e, fullname) ==
    IF e.type = BYTE_ARRAY
    THEN ListOffsetForm(NumpyForm("uint8", NoKey),
                        IF e.converted_type = "UTF8" THEN "string"
                                                     ELSE "bytestring",
                        fullname)
    ELSE NumpyForm(simple(e.type), fullname)

BranchRepeatedFirst(e, nkids) ==
    IF nkids = 0 THEN "leaf"
    ELSE IF e.repetition_type = REPEATED THEN "repeated"
    ELSE IF e.converted_type = LIST THEN "list"
    ELSE "struct"

\* lines 177, 207, 216, 219: the branch schema_to_awkward takes.
Branch(e, nkids) ==
    IF nkids = 0 THEN "leaf"
    ELSE IF e.converted_type = LIST THEN "list"
    ELSE IF e.repetition_type = REPEATED THEN "repeated"
    ELSE "struct"

ListOptionalAsElement(optional, first_repeated) == optional

\* lines 209-211: a LIST whose first child is REPEATED is made optional.
ListOptional(optional, first_repeated) ==
    IF first_repeated THEN TRUE ELSE optional

\* lines 224-227.
Wrap(optional, form, fullname) ==
    Ok(IF optional THEN _optional(form, fullname) ELSE form)

RECURSIVE schema_to_awkward(_, _, _), AwkwardContents(_, _, _, _, _)
\* line 221: the list comprehension over the children from the k-th,
\* which the first failing child ends.
AwkwardContents(h, kids, fullname, k, done) ==
    IF k > Len(kids)
    THEN Ok(done)
    ELSE LET c == schema_to_awkward(h, kids[k], fullname) IN
         IF c.err # None
         THEN c
         ELSE AwkwardContents(h, kids, fullname, k + 1, Append(done, c.val))

\* lines 168-227.  An element without a children attribute raises
\* AttributeError when the attribute is read (hasattr, line 58).
schema_to_awkward(h, se, topname) ==
    LET e == h.sch[se]
        fullname == FullName(topname, e.name)
        optional == e.repetition_type = OPTIONAL
        kids == IF se \in h.has THEN DictValues(h.children[se]) ELSE <<>>
        branch == Branch(e, Len(kids))
    IN IF branch = "leaf"
       THEN Wrap(optional, LeafForm(e, fullname), fullname)
       ELSE IF branch = "list"
       THEN LET first == _first(h.children[se])
                first_repeated == h.sch[first].repetition_type = REPEATED
            IN IF first_repeated /\ first \notin h.has
               THEN Raise("AttributeError")
               ELSE LET child == IF first_repeated
                                 THEN _first(h.children[first])
                                 ELSE first
                        content == schema_to_awkward(h, child, fullname)
                    IN IF content.err # None
                       THEN content
                       ELSE Wrap(ListOptional(optional, first_repeated),
                                 ListOffsetForm(content.val, None, fullname),
                                 fullname)
       ELSE IF branch = "repeated"
       THEN Raise("NotImplementedError")
       ELSE LET contents == AwkwardContents(h, kids, fullname, 1, <<>>)
                names == [j \in 1..Len(kids) |-> h.sch[kids[j]].name]
            IN IF contents.err # None
               THEN contents
               ELSE Wrap(optional, RecordForm(contents.val, names), fullname)

\* ----------------------------------------------------- _is_list_like
TooManyNever(d) == FALSE

\* lines 238, 241: len(...["children"]) > 1.
TooMany(d) == Len(d) > 1

\* lines 230-248, for column.meta_data.path_in_schema.  se["children"] of
\* an element without children has no item to return.
_is_list_like(h, path) ==
    IF Len(path) < 3
    THEN Ok(FALSE)
    ELSE LET found == schema_element(h, Prefix(path, Len(path) - 2)) IN
         IF found.err # None
         THEN found
         ELSE LET se == found.val IN
              IF h.sch[se].converted_type # LIST
              THEN Ok(FALSE)
              ELSE IF se \notin h.has
              THEN Raise("NoChildrenItem")
              ELSE IF TooMany(h.children[se])
              THEN Ok(FALSE)
              ELSE LET se2 == _first(h.children[se]) IN
                   IF se2 \notin h.has
                   THEN Raise("NoChildrenItem")
                   ELSE IF TooMany(h.children[se2])
                   THEN Ok(FALSE)
                   ELSE IF h.sch[se2].repetition_type # REPEATED
                   THEN Ok(FALSE)
                   ELSE LET se3 == _first(h.children[se2]) IN
                        IF h.sch[se3].repetition_type = REPEATED
                        THEN Ok(FALSE)
                        ELSE Ok(TRUE)

\* ------------------------------------------------------------ state
NoCall == [op |-> "none", arg |-> <<>>, err |-> None, val |-> None]

\* A valid preorder list of at most max elements, its leaves typed from
\* types, as the metadata reader hands it over: no tree is built yet.
Start(max, types) ==
    /\ \E n \in 2..max :
       \E counts \in ValidCounts(n) :
       \E reps \in [2..n -> Repetitions] :
       \E ty \in [{i \in 2..n : counts[i] = 0} -> types] :
       \E converted \in [{i \in 2..n : counts[i] # 0} -> GroupConverted] :
          schema = Elements(counts, reps, ty, converted)
    /\ children = [i \in 1..Len(schema) |-> <<>>]
    /\ has = {}
    /\ isflat = {}
    /\ pc = "new"
    /\ call = NoCall

Init == Start(MaxElems, {INT64})

InitPaths == Start(MaxPathElems, {INT64})

InitAwkward == Start(MaxElems, LeafTypes)

Built(sch) ==
    schema_tree(sch, [children |-> [i \in 1..Len(sch) |-> <<>>], has |-> {},
                      err |-> FALSE, i |-> 1], 1)

\* schema_tree(schema_elements), called on its own.
CallSchemaTree ==
    /\ pc = "new"
    /\ LET t == Built(schema) IN
       /\ children' = t.children
       /\ has' = t.has
       /\ pc' = IF t.err THEN "IndexError" ELSE "tree"
       /\ call' = [op |-> "schema_tree", arg |-> <<>>, err |-> None, val |-> t.i]
    /\ UNCHANGED <<schema, isflat>>

\* flatten(root, root) on a built tree or on a constructed helper.
CallFlatten ==
    /\ pc \in {"tree", "helper"}
    /\ LET f == flatten(schema, [children |-> children, has |-> has,
                                 isflat |-> isflat], 1, 1, <<>>) IN
       /\ children' = f.children
       /\ isflat' = f.isflat
    /\ pc' = IF pc = "tree" THEN "helper" ELSE "reflat"
    /\ call' = [op |-> "flatten", arg |-> <<>>, err |-> None, val |-> None]
    /\ UNCHANGED <<schema, has>>

Constructed(sch) ==
    LET t == Built(sch) IN
    flatten(sch, [children |-> t.children, has |-> t.has, isflat |-> {}],
            1, 1, <<>>)

\* SchemaHelper.__init__, lines 79-92: schema_tree, then flatten.
NewSchemaHelper ==
    /\ pc = "new"
    /\ LET t == Built(schema)
           f == Constructed(schema) IN
       /\ children' = IF t.err THEN t.children ELSE f.children
       /\ has' = t.has
       /\ isflat' = IF t.err THEN {} ELSE f.isflat
       /\ pc' = IF t.err THEN "IndexError" ELSE "helper"
    /\ call' = [op |-> "SchemaHelper", arg |-> <<>>, err |-> None, val |-> None]
    /\ UNCHANGED schema

\* The constructed helper: the element list, the children mappings and the
\* elements that have one.
Helper == [sch |-> schema, children |-> children, has |-> has]

\* The names the elements of the list carry, and one that none does.
UsedNames == {schema[i].name : i \in 2..Len(schema)}

\* The segments paths are drawn from: every name and the absent name.
Segments == {<<x>> : x \in UsedNames \cup {AbsentName}}

RECURSIVE PathsUpTo(_)
\* The lists of at most n segments of which every proper prefix resolves:
\* the paths that resolve and the paths that fail at their last segment.
PathsUpTo(n) ==
    IF n = 0
    THEN {<<>>}
    ELSE LET shorter == PathsUpTo(n - 1)
             open == {q \in shorter :
                        Len(q) = n - 1 /\ schema_element(Helper, q).err = None}
         IN shorter \cup {Append(q, s) : q \in open, s \in Segments}

ListPaths == PathsUpTo(Len(schema))

\* The str arguments: the lists of one-piece segments, joined with dots.
StrPaths ==
    {Join(q) : q \in {r \in ListPaths :
                        r # <<>> /\ \A j \in 1..Len(r) : Len(r[j]) = 1}}

PathArgs == {PathList(q) : q \in ListPaths} \cup {PathStr(k) : k \in StrPaths}

Returned(op, arg, r) == [op |-> op, arg |-> arg, err |-> r.err, val |-> r.val]

\* A call on the constructed helper.  The functions below read the helper
\* and change nothing of it, so a run makes one such call and ends.
Query(op, arg, r) ==
    /\ pc' = "returned"
    /\ call' = Returned(op, arg, r)
    /\ UNCHANGED <<schema, children, has, isflat>>

CallSchemaElement ==
    /\ pc = "helper"
    /\ \E name \in PathArgs :
        Query("schema_element", name, schema_element(Helper, Parts(name)))

CallIsRequired ==
    /\ pc = "helper"
    /\ \E name \in PathArgs :
        Query("is_required", name, is_required(Helper, Parts(name)))

CallMaxRepetitionLevel ==
    /\ pc = "helper"
    /\ \E name \in PathArgs :
        Query("max_repetition_level", name,
              max_repetition_level(Helper, Parts(name)))

CallMaxDefinitionLevel ==
    /\ pc = "helper"
    /\ \E name \in PathArgs :
        Query("max_definition_level", name,
              max_definition_level(Helper, Parts(name)))

\* schema_to_awkward(se) of an element of the helper, topname left "".
CallSchemaToAwkward ==
    /\ pc = "helper"
    /\ \E se \in 1..Len(schema) :
        Query("schema_to_awkward", se,
              schema_to_awkward(Helper, se, EmptyString))

\* _is_list_like(helper, column), for the column's path_in_schema.
CallIsListLike ==
    /\ pc = "helper"
    /\ \E path \in ListPaths :
        Query("_is_list_like", PathList(path), _is_list_like(Helper, path))

\* The tree and the flat index.
Next ==
    \/ CallSchemaTree
    \/ CallFlatten
    \/ NewSchemaHelper

Spec == Init /\ [][Next]_vars

\* The path resolver and the level calculator.
NextPaths ==
    \/ NewSchemaHelper
    \/ CallSchemaElement
    \/ CallIsRequired
    \/ CallMaxRepetitionLevel
    \/ CallMaxDefinitionLevel

SpecPaths == InitPaths /\ [][NextPaths]_vars

\* The form mapper.
NextAwkward ==
    \/ NewSchemaHelper
    \/ CallSchemaToAwkward

SpecAwkward == InitAwkward /\ [][NextAwkward]_vars

\* The shape detector.
NextColumns ==
    \/ NewSchemaHelper
    \/ CallIsListLike

SpecColumns == Init /\ [][NextColumns]_vars

\* ------------------------------------------------------------ claims
Front(parts) == SubSeq(parts, 1, Len(parts) - 1)

Resolves(parts) == schema_element(Helper, parts).err = None

ElementAt(parts) == schema[schema_element(Helper, parts).val]

LevelCall ==
    /\ pc = "returned"
    /\ call.op \in {"max_definition_level", "max_repetition_level"}

\* C1: for every path p that resolves, max_definition_level(p) is
\* max_definition_level(p without its last segment) plus 1 unless the
\* element at p is REQUIRED, max_repetition_level(p) is
\* max_repetition_level(p without its last segment) plus 1 if the element at
\* p is REPEATED, and both are 0 for the empty path.
LevelRecurrence ==
    (LevelCall /\ Resolves(Parts(call.arg))) =>
        LET p == Parts(call.arg) IN
        /\ call.err = None
        /\ p = <<>> => call.val = 0
        /\ (p # <<>> /\ call.op = "max_definition_level") =>
              call.val = max_definition_level(Helper, Front(p)).val
                           + (IF ElementAt(p).repetition_type = REQUIRED
                              THEN 0 ELSE 1)
        /\ (p # <<>> /\ call.op = "max_repetition_level") =>
              call.val = max_repetition_level(Helper, Front(p)).val
                           + (IF ElementAt(p).repetition_type = REPEATED
                              THEN 1 ELSE 0)

\* A definition level asked of a three-segment path that ends in a REPEATED
\* element below an OPTIONAL and a REQUIRED one.
LevelRecurrenceWitness ==
    /\ LevelCall
    /\ call.op = "max_definition_level"
    /\ Resolves(Parts(call.arg))
    /\ Len(Parts(call.arg)) = 3
    /\ ElementAt(Parts(call.arg)).repetition_type = REPEATED
    /\ call.val = 2

PathCall ==
    /\ pc = "returned"
    /\ call.op \in {"schema_element", "is_required", "max_repetition_level",
                    "max_definition_level"}

\* The path has a segment that its level's children mapping lacks.
SegmentAbsent(parts) == schema_element(Helper, parts).err = "KeyError"

\* The segments before the absent one name REQUIRED elements only.
RequiredUpToAbsent(parts) ==
    \A n \in 1..Len(parts) :
        Resolves(Prefix(parts, n)) =>
            ElementAt(Prefix(parts, n)).repetition_type = REQUIRED

\* C5 as stated: for every path with an absent segment, each of
\* schema_element, is_required, max_repetition_level and max_definition_level
\* fails with the lookup error and returns no value.
PathNotFoundInEveryCall ==
    (PathCall /\ SegmentAbsent(Parts(call.arg))) => call.err = "KeyError"

\* C5, amended: schema_element, max_repetition_level and max_definition_level
\* fail with the lookup error on every path with an absent segment;
\* is_required fails with it only when every segment that resolves before
\* the absent one is REQUIRED, and returns false otherwise.
PathNotFoundUnlessShortCircuit ==
    (PathCall /\ SegmentAbsent(Parts(call.arg))) =>
        IF call.op = "is_required" /\ ~RequiredUpToAbsent(Parts(call.arg))
        THEN call.err = None /\ call.val = FALSE
        ELSE call.err = "KeyError" /\ call.val = None

\* is_required fails on a path whose absent segment follows a REQUIRED one.
PathNotFoundWitness ==
    /\ PathCall
    /\ call.op = "is_required"
    /\ SegmentAbsent(Parts(call.arg))
    /\ Len(Parts(call.arg)) >= 2
    /\ call.err = "KeyError"

\* The declared child counts of the list.
Counts == [i \in 1..Len(schema) |-> schema[i].num_children]

DeclaredChildren(i) == [k \in 1..Counts[i] |-> ChildRoot(Counts, i, k)]

IsLeaf(i) == schema[i].num_children = 0

\* The groups strictly above element i, the root left out.
GroupsAbove(i) == {a \in 2..(i - 1) : i <= SubtreeEnd(Counts, a)}

\* The places (element, position) at which element e sits in a children
\* mapping.
Attachments(e) ==
    {<<n, j>> \in (1..Len(schema)) \X (1..Len(schema)) :
        j <= Len(children[n]) /\ children[n][j].v = e}

\* C4: after schema_tree on a valid preorder list, every group's children
\* mapping holds exactly its num_children entries, the tops of the next
\* num_children contiguous preorder subtrees in declaration order under
\* their names, and every element but the first is attached exactly once.
TreeMatchesDeclaredCounts ==
    call.op = "schema_tree" =>
        /\ pc = "tree"
        /\ \A i \in 1..Len(schema) :
              IF IsLeaf(i)
              THEN i \notin has
              ELSE /\ i \in has
                   /\ Len(children[i]) = schema[i].num_children
                   /\ DictValues(children[i]) = DeclaredChildren(i)
                   /\ \A j \in 1..Len(children[i]) :
                         children[i][j].k = <<schema[children[i][j].v].name>>
        /\ Attachments(1) = {}
        /\ \A e \in 2..Len(schema) : Cardinality(Attachments(e)) = 1

\* A tree built from a list in which a group of two children is followed by
\* a sibling of that group.
TreeWitness ==
    /\ pc = "tree"
    /\ \E i \in 2..Len(schema) :
          /\ schema[i].num_children = 2
          /\ SubtreeEnd(Counts, i) < Len(schema)
          /\ DictValues(children[i]) = <<i + 1, i + 2>>

\* The keys of the flat index whose value is element e.
KeysOf(e) == {j \in 1..Len(children[1]) : children[1][j].v = e}

Unannotated(i) == schema[i].converted_type \notin {LIST, MAP}

\* C2 as stated: every leaf is the value of exactly one key of the flat
\* index, except the leaves beneath a REPEATED group that is neither LIST nor
\* MAP, which are the value of none.
LeafIndexedUnlessLegacyRepeated ==
    pc = "helper" =>
        \A e \in 2..Len(schema) :
            IsLeaf(e) =>
                Cardinality(KeysOf(e)) =
                    IF \E a \in GroupsAbove(e) :
                          /\ schema[a].repetition_type = REPEATED
                          /\ Unannotated(a)
                    THEN 0 ELSE 1

\* C2, amended: every leaf is the value of exactly one key of the flat
\* index, except the leaves beneath a group that is REPEATED or carries the
\* LIST or MAP converted type, which are the value of none.
LeafIndexedUnlessRepeatedOrAnnotated ==
    pc = "helper" =>
        \A e \in 2..Len(schema) :
            IsLeaf(e) =>
                Cardinality(KeysOf(e)) =
                    IF \E a \in GroupsAbove(e) :
                          \/ schema[a].repetition_type = REPEATED
                          \/ ~Unannotated(a)
                    THEN 0 ELSE 1

\* A helper with a leaf under a REPEATED struct that no key maps to, and a
\* leaf inside a struct that one dotted key maps to.
LeafIndexWitness ==
    /\ pc = "helper"
    /\ \E e \in 2..Len(schema) :
          /\ IsLeaf(e)
          /\ \E a \in GroupsAbove(e) :
                schema[a].repetition_type = REPEATED /\ Unannotated(a)
          /\ KeysOf(e) = {}
    /\ \E e \in 2..Len(schema) :
          /\ IsLeaf(e)
          /\ GroupsAbove(e) # {}
          /\ Cardinality(KeysOf(e)) = 1
          /\ Len(children[1][CHOOSE j \in KeysOf(e) : TRUE].k) = 2

\* The plain structs directly under the root that flatten recursed into.
TopStructs ==
    {i \in 2..Len(schema) :
        ~IsLeaf(i) /\ Unannotated(i) /\ GroupsAbove(i) = {} /\ i \in isflat}

FlattenIdempotent ==
    pc = "reflat" => children[1] = Constructed(schema).children[1]

\* A second flatten of an index that holds dotted keys.
FlattenAgainWitness ==
    /\ pc = "reflat"
    /\ isflat # {}
    /\ Len(children[1]) > schema[1].num_children

AwkwardCall == pc = "returned" /\ call.op = "schema_to_awkward"

Kids(i) == IF i \in has THEN DictValues(children[i]) ELSE <<>>

\* Element i is a canonical 3-level LIST of INT64: a LIST group whose only
\* child is a REPEATED group whose only child is an INT64 leaf, neither the
\* LIST nor the leaf OPTIONAL.
CanonicalInt64List(i) ==
    /\ i > 1
    /\ schema[i].converted_type = LIST
    /\ schema[i].repetition_type # OPTIONAL
    /\ Len(Kids(i)) = 1
    /\ LET mid == Kids(i)[1] IN
       /\ schema[mid].repetition_type = REPEATED
       /\ schema[mid].converted_type = None
       /\ Len(Kids(mid)) = 1
       /\ LET element == Kids(mid)[1] IN
          /\ IsLeaf(element)
          /\ schema[element].type = INT64
          /\ schema[element].repetition_type # OPTIONAL

ElementKey(i) == <<schema[i].name, schema[Kids(Kids(i)[1])[1]].name>>

\* C6 as stated: the form of a canonical 3-level LIST of INT64 is
\* ListOf(Leaf(int64)) with no Optional wrapper at any level.
CanonicalListUnwrapped ==
    (AwkwardCall /\ CanonicalInt64List(call.arg)) =>
        /\ call.err = None
        /\ call.val.form = "ListOffsetForm"
        /\ call.val.contents[1].form = "NumpyForm"
        /\ call.val.contents[1].primitive = "int64"

\* C6, amended: the form of a canonical 3-level LIST of INT64 is
\* Optional(ListOf(Leaf(int64))): the list is wrapped in Optional because its
\* only child is REPEATED, whatever its own repetition type, and nothing
\* below the list is wrapped.
CanonicalListOptional ==
    (AwkwardCall /\ CanonicalInt64List(call.arg)) =>
        /\ call.err = None
        /\ call.val =
              ByteMaskedForm(
                  ListOffsetForm(NumpyForm("int64", ElementKey(call.arg)),
                                 None, <<schema[call.arg].name>>),
                  <<schema[call.arg].name>>)

\* The mapper has returned the form of a REQUIRED canonical list.
CanonicalListWitness ==
    /\ AwkwardCall
    /\ CanonicalInt64List(call.arg)
    /\ schema[call.arg].repetition_type = REQUIRED
    /\ call.val.form = "ByteMaskedForm"

\* A REPEATED group that is not a LIST: the mapper raises on it.
RepeatedNotList(i) ==
    /\ Len(Kids(i)) > 0
    /\ schema[i].repetition_type = REPEATED
    /\ schema[i].converted_type # LIST

\* A REPEATED group that is neither LIST nor MAP.
RepeatedLegacy(i) == RepeatedNotList(i) /\ schema[i].converted_type # MAP

\* A LIST group whose first child is a REPEATED leaf: the mapper reads the
\* children the leaf does not have.
ListOfRepeatedLeaf(i) ==
    /\ Len(Kids(i)) > 0
    /\ schema[i].converted_type = LIST
    /\ schema[Kids(i)[1]].repetition_type = REPEATED
    /\ Kids(i)[1] \notin has

RECURSIVE Applied(_), AppliedToKids(_, _)
\* The elements the mapping is applied to when it is asked for element i:
\* i itself, the children of a struct in order up to the first that fails,
\* the element of a LIST.  failed tells whether the mapping of i fails.
Applied(i) ==
    IF Len(Kids(i)) = 0
    THEN [nodes |-> {i}, failed |-> FALSE]
    ELSE IF schema[i].converted_type = LIST
    THEN IF ListOfRepeatedLeaf(i)
         THEN [nodes |-> {i}, failed |-> TRUE]
         ELSE LET first == Kids(i)[1]
                  r == Applied(IF schema[first].repetition_type = REPEATED
                               THEN Kids(first)[1] ELSE first)
              IN [r EXCEPT !.nodes = @ \cup {i}]
    ELSE IF schema[i].repetition_type = REPEATED
    THEN [nodes |-> {i}, failed |-> TRUE]
    ELSE [AppliedToKids(Kids(i), 1) EXCEPT !.nodes = @ \cup {i}]

AppliedToKids(kids, k) ==
    IF k > Len(kids)
    THEN [nodes |-> {}, failed |-> FALSE]
    ELSE LET r == Applied(kids[k]) IN
         IF r.failed
         THEN r
         ELSE [AppliedToKids(kids, k + 1) EXCEPT !.nodes = @ \cup r.nodes]

\* C7 as stated: the mapper fails with NotImplementedError exactly when the
\* mapping is applied to a REPEATED group that is neither LIST nor MAP; a
\* REPEATED group annotated LIST or MAP does not make it fail so.
NotImplementedOnLegacyOnly ==
    AwkwardCall =>
        (call.err = "NotImplementedError"
            <=> \E n \in Applied(call.arg).nodes : RepeatedLegacy(n))

\* C7, amended: the mapper fails with NotImplementedError exactly when the
\* mapping is applied to a REPEATED group that is not a LIST, a REPEATED
\* MAP included; applied to a LIST whose first child is a REPEATED leaf it
\* fails with AttributeError; otherwise it returns a form.
NotImplementedOnRepeatedNotList ==
    AwkwardCall =>
        LET nodes == Applied(call.arg).nodes IN
        IF \E n \in nodes : RepeatedNotList(n)
        THEN call.err = "NotImplementedError"
        ELSE IF \E n \in nodes : ListOfRepeatedLeaf(n)
             THEN call.err = "AttributeError"
             ELSE /\ call.err = None
                  /\ call.val.form \in {"NumpyForm", "ListOffsetForm",
                                        "RecordForm", "ByteMaskedForm"}

\* The mapper raised on a REPEATED struct that is the element of a LIST
\* under a struct.
NotImplementedWitness ==
    /\ AwkwardCall
    /\ call.err = "NotImplementedError"
    /\ ~RepeatedNotList(call.arg)
    /\ \E n \in Applied(call.arg).nodes :
          /\ RepeatedLegacy(n)
          /\ \E l \in Applied(call.arg).nodes :
                /\ schema[l].converted_type = LIST
                /\ schema[l].repetition_type = REPEATED
                /\ n \in Applied(l).nodes

RECURSIVE KeysFollow(_, _, _, _)
\* The keys of the form, which describes element i reached under the
\* dotted name top.  As stated: every form carries the names of all the
\* elements from the start down to its own, the middle group of a 3-level
\* LIST and the Struct included.  As the mapper does it: the middle group is
\* not named, and a Struct and the bytes under a string leaf carry no key.
KeysFollow(form, i, top, stated) ==
    LET fullname == top \o <<schema[i].name>>
        first == Kids(i)[1]
        three == schema[first].repetition_type = REPEATED
    IN IF form.form = "ByteMaskedForm"
       THEN /\ form.key = fullname
            /\ form.contents[1].form # "ByteMaskedForm"
            /\ KeysFollow(form.contents[1], i, top, stated)
       ELSE IF form.form = "NumpyForm"
       THEN Len(Kids(i)) = 0 /\ form.key = fullname
       ELSE IF form.form = "ListOffsetForm" /\ Len(Kids(i)) = 0
       THEN /\ form.key = fullname
            /\ stated \/ form.contents[1] = NumpyForm("uint8", NoKey)
       ELSE IF form.form = "ListOffsetForm"
       THEN /\ form.key = fullname
            /\ KeysFollow(form.contents[1],
                          IF three THEN Kids(first)[1] ELSE first,
                          IF three /\ stated
                          THEN fullname \o <<schema[first].name>>
                          ELSE fullname,
                          stated)
       ELSE /\ form.form = "RecordForm"
            /\ form.key = IF stated THEN fullname ELSE NoKey
            /\ Len(form.contents) = Len(Kids(i))
            /\ \A j \in 1..Len(Kids(i)) :
                  KeysFollow(form.contents[j], Kids(i)[j], fullname, stated)

\* C8 as stated: every form carries the dot-joined names of all the schema
\* nodes from the starting name down to the node it describes, the middle
\* REPEATED group of a 3-level LIST included.
KeysAreFullPaths ==
    (AwkwardCall /\ call.err = None) =>
        KeysFollow(call.val, call.arg, EmptyString, TRUE)

\* C8, amended: every Leaf, ListOf and Optional form carries the dot-joined
\* names of the elements the mapper passed through from the starting one
\* down to the one the form describes; the middle REPEATED group of a
\* 3-level LIST is passed over and not named; a Struct carries no key, nor
\* do the bytes under a string leaf.
KeysAreMapperPaths ==
    (AwkwardCall /\ call.err = None) =>
        KeysFollow(call.val, call.arg, EmptyString, FALSE)

\* The form of an OPTIONAL struct that holds a 3-level LIST of strings.
KeysWitness ==
    /\ AwkwardCall
    /\ call.err = None
    /\ call.val.form = "ByteMaskedForm"
    /\ call.val.contents[1].form = "RecordForm"
    /\ \E j \in 1..Len(call.val.contents[1].contents) :
          LET f == call.val.contents[1].contents[j] IN
          /\ f.form = "ByteMaskedForm"
          /\ f.contents[1].form = "ListOffsetForm"
          /\ Len(f.contents[1].key) = 2
          /\ f.contents[1].contents[1].form = "ListOffsetForm"
          /\ Len(f.contents[1].contents[1].key) = 3

ListLikeCall == pc = "returned" /\ call.op = "_is_list_like"

\* The element two segments above the end of the path is a LIST with one
\* child, which is REPEATED and has one child, which is not REPEATED.
ThreeLevelList(path) ==
    /\ Len(path) >= 3
    /\ LET top == schema_element(Helper, Prefix(path, Len(path) - 2)).val IN
       /\ schema[top].converted_type = LIST
       /\ Len(Kids(top)) = 1
       /\ schema[Kids(top)[1]].repetition_type = REPEATED
       /\ Len(Kids(Kids(top)[1])) = 1
       /\ schema[Kids(Kids(top)[1])[1]].repetition_type # REPEATED

\* C9: for every column whose path resolves, _is_list_like returns true
\* exactly when the path has at least 3 segments and the element two
\* segments above its end is a LIST with exactly one child, that child is
\* REPEATED and has exactly one child, and that grandchild is not REPEATED;
\* it returns false otherwise and never raises.
ListLikeIffThreeLevelList ==
    (ListLikeCall /\ Resolves(call.arg.p)) =>
        /\ call.err = None
        /\ call.val = ThreeLevelList(call.arg.p)

\* _is_list_like has answered true for a list inside a struct.
ListLikeWitness ==
    /\ ListLikeCall
    /\ Resolves(call.arg.p)
    /\ Len(call.arg.p) = 4
    /\ call.val = TRUE

=============================================================================
